---------------------------- MODULE Spec2Model ----------------------------
(***************************************************************************)
(* Derived-metric scorers of the CSI dashboard (src/utils/data_processor): *)
(* calculate_member_engagement, calculate_partnership_effectiveness and    *)
(* analyze_program_performance, as functions from a pandas table to a      *)
(* pandas table; and the similarity ranker find_similar_members            *)
(* (src/utils/recommender), whose result is one of a set because the sort  *)
(* leaves the order of equal scores open.                                  *)
(*                                                                         *)
(* Numbers.  A float cell is an exact rational [n |-> numerator,           *)
(* d |-> denominator] in lowest terms with d > 0; d = 0 marks the          *)
(* non-finite floats: n = 0 is NaN, n = 1 is +inf, n = -1 is -inf.         *)
(* Arithmetic follows IEEE-754 as numpy applies it to a Series (x/0 is     *)
(* inf or NaN, never an exception); binary rounding error and the sign of  *)
(* zero are not represented.                                               *)
(*                                                                         *)
(* Time.  A timestamp is an integer number of ticks, TicksPerDay ticks to  *)
(* the day, so that a timedelta's .days (a floor) is a real conversion.    *)
(*                                                                         *)
(* Tables.  A DataFrame is [isNone, columns, index, rows]: the set of      *)
(* column names, the row labels in positional order, and one function      *)
(* column name -> cell per row.  A Series is a function label -> cell.     *)
(* Row labels are unique; every date cell holds a timestamp (no NaT) and   *)
(* every numeric cell a finite number on input.                            *)
(*                                                                         *)
(* Objects.  A call works on a frame that is either a copy of the caller's *)
(* table or the caller's table itself; the caller's table after the call   *)
(* is part of the step.                                                    *)
(***************************************************************************)
EXTENDS Integers, Sequences, FiniteSets, TLC

VARIABLES
    now,            \* the value datetime.now() returns during the call
    member_arg,     \* the table passed to calculate_member_engagement
    member_ret,     \* what that call produced
    partner_arg,    \* the table passed to calculate_partnership_effectiveness
    partner_ret,
    program_arg,    \* the table passed to analyze_program_performance
    program_ret,
    rescore_ret,    \* what a scorer produced when run again on its own output
    similar_arg,    \* the table passed to find_similar_members
    similar_id,     \* its member_id argument
    similar_k,      \* its n_similar argument
    similar_ret,
    content_calendar,   \* st.session_state.content_calendar
    uploaded_file,      \* the CSV last handed to process_uploaded_data, as read
    upload_type,        \* the data type it was uploaded as
    upload_ret          \* what process_uploaded_data produced for it

vars == <<now, member_arg, member_ret, partner_arg, partner_ret,
          program_arg, program_ret, rescore_ret,
          similar_arg, similar_id, similar_k, similar_ret,
          content_calendar, uploaded_file, upload_type, upload_ret>>

---------------------------------------------------------------------------
(* Floats *)

Abs(i) == IF i < 0 THEN -i ELSE i

Sgn(i) == IF i < 0 THEN -1 ELSE IF i > 0 THEN 1 ELSE 0

RECURSIVE GCD(_, _)
GCD(a, b) == IF b = 0 THEN a ELSE GCD(b, a % b)

\* the float n/d of two integers (true division): x/0 is +-inf, 0/0 is NaN
F(n, d) ==
    IF d = 0 THEN [n |-> Sgn(n), d |-> 0]
    ELSE LET g == GCD(Abs(n), Abs(d))
             s == Sgn(d)
         IN  [n |-> (s * n) \div g, d |-> (s * d) \div g]

NaN == [n |-> 0, d |-> 0]

IsNaN(x) == x.d = 0 /\ x.n = 0

IsFinite(x) == x.d # 0

FNeg(x) == [n |-> -x.n, d |-> x.d]

FAdd(x, y) ==
    IF IsNaN(x) \/ IsNaN(y) THEN NaN
    ELSE IF x.d = 0 /\ y.d = 0 THEN (IF x.n = y.n THEN x ELSE NaN)
    ELSE IF x.d = 0 THEN x
    ELSE IF y.d = 0 THEN y
    ELSE F(x.n * y.d + y.n * x.d, x.d * y.d)

FSub(x, y) == FAdd(x, FNeg(y))

FMul(x, y) ==
    IF IsNaN(x) \/ IsNaN(y) THEN NaN
    ELSE IF x.d = 0 \/ y.d = 0
         THEN (IF x.n = 0 \/ y.n = 0 THEN NaN
               ELSE [n |-> Sgn(x.n) * Sgn(y.n), d |-> 0])
    ELSE F(x.n * y.n, x.d * y.d)

FDiv(x, y) ==
    IF IsNaN(x) \/ IsNaN(y) THEN NaN
    ELSE IF x.d = 0 /\ y.d = 0 THEN NaN
    ELSE IF y.d = 0 THEN F(0, 1)
    ELSE IF x.d = 0 THEN [n |-> x.n * (IF y.n < 0 THEN -1 ELSE 1), d |-> 0]
    ELSE F(x.n * y.d, x.d * y.n)

FAbs(x) == [n |-> Abs(x.n), d |-> x.d]

\* x >= y as numpy compares floats: any comparison with NaN is False
FGe(x, y) ==
    IF IsNaN(x) \/ IsNaN(y) THEN FALSE
    ELSE IF x.d = 0 /\ y.d = 0 THEN x.n >= y.n
    ELSE IF x.d = 0 THEN x.n = 1
    ELSE IF y.d = 0 THEN y.n = -1
    ELSE x.n * y.d >= y.n * x.d

FGt(x, y) == FGe(x, y) /\ ~FGe(y, x)

FLe(x, y) == FGe(y, x)

FLt(x, y) == FGt(y, x)

RECURSIVE Pow10(_)
Pow10(k) == IF k = 0 THEN 1 ELSE 10 * Pow10(k - 1)

\* numpy's round: to the nearest multiple of 10^-k, a tie to the even one
FRound(x, k) ==
    IF x.d = 0 THEN x
    ELSE LET num == x.n * Pow10(k)
             q   == num \div x.d
             r   == num % x.d
             m   == IF 2 * r < x.d THEN q
                    ELSE IF 2 * r > x.d THEN q + 1
                    ELSE IF q % 2 = 0 THEN q ELSE q + 1
         IN  F(m, Pow10(k))

---------------------------------------------------------------------------
(* Tables and Series *)

Range(s) == {s[i] : i \in 1..Len(s)}

NoTable == [isNone |-> TRUE, columns |-> {}, index |-> <<>>, rows |-> <<>>]

\* pd.RangeIndex(n): the labels 0..n-1
RangeIndex(n) == [p \in 1..n |-> p - 1]

\* data[c]: the column c as a Series over the table's labels
Column(data, c) ==
    [l \in Range(data.index) |->
        data.rows[CHOOSE p \in 1..Len(data.index) : data.index[p] = l][c]]

\* pd.Series([v] * n): n copies of v, labelled 0..n-1
ConstSeries(v, n) == [l \in 0..(n - 1) |-> v]

\* s1 (op) s2: aligned on the union of the labels, NaN where one side lacks
\* the label
SeriesAdd(s1, s2) ==
    [l \in DOMAIN s1 \cup DOMAIN s2 |->
        IF l \in DOMAIN s1 /\ l \in DOMAIN s2 THEN FAdd(s1[l], s2[l]) ELSE NaN]

\* Series.max(): NaN cells are skipped; NaN when nothing is left
SeriesMax(s) ==
    LET vals == {s[l] : l \in DOMAIN s} \ {NaN}
    IN  IF vals = {} THEN NaN
        ELSE CHOOSE m \in vals : \A v \in vals : FGe(m, v)

\* data[c] = s: a new or replaced column, aligned on the table's labels
SetColumn(data, c, s) ==
    [data EXCEPT
        !.columns = @ \cup {c},
        !.rows = [p \in 1..Len(data.rows) |->
                    [k \in data.columns \cup {c} |->
                        IF k = c
                        THEN (IF data.index[p] \in DOMAIN s
                              THEN s[data.index[p]] ELSE NaN)
                        ELSE data.rows[p][k]]]]

\* data[c] = v for a scalar v
SetColumnScalar(data, c, v) ==
    SetColumn(data, c, [l \in Range(data.index) |-> v])

\* what a call produced: a table, None, or an exception
Pending == [kind |-> "pending", exc |-> "", table |-> NoTable]

ReturnNone == [kind |-> "none", exc |-> "", table |-> NoTable]

Return(t) == [kind |-> "table", exc |-> "", table |-> t]

Raise(e) == [kind |-> "raise", exc |-> e, table |-> NoTable]

\* data = df: a second name for the caller's object
DataFrameAlias(df) == [table |-> df, isCallers |-> TRUE]

\* data = df.copy(): a new object holding the same cells
DataFrameCopy(df) == [table |-> df, isCallers |-> FALSE]

\* the caller's table once the call is over: the column assignments made to
\* the working frame reach it only when the frame is the caller's object
CallersTable(df, frame, final) == IF frame.isCallers THEN final ELSE df

---------------------------------------------------------------------------
(* Time *)

TicksPerDay == 2

\* timedelta.days: whole days, rounded towards minus infinity
Days(ticks) == ticks \div TicksPerDay


---------------------------------------------------------------------------
(* calculate_member_engagement, data_processor.py lines 221-290 *)

\* elementwise maps over a Series
SeriesDivScalar(s, v) == [l \in DOMAIN s |-> FDiv(s[l], v)]

SeriesMulScalar(s, v) == [l \in DOMAIN s |-> FMul(s[l], v)]

SeriesRsubScalar(v, s) == [l \in DOMAIN s |-> FSub(v, s[l])]

SeriesRound(s, k) == [l \in DOMAIN s |-> FRound(s[l], k)]

\* attendance weighted 0.4 in place of 0.3
attendance_weight_heavy == F(4, 10)

attendance_weight == F(3, 10)

satisfaction_weight == F(3, 10)

recency_weight == F(2, 10)

loyalty_weight == F(2, 10)

\* lines 237-240: (datetime.now() - data["last_interaction"]).dt.days, or 30
WithDaysSinceInteraction(data, today) ==
    IF "last_interaction" \in data.columns
    THEN SetColumn(data, "days_since_interaction",
            [l \in Range(data.index) |->
                F(Days(today - Column(data, "last_interaction")[l]), 1)])
    ELSE SetColumnScalar(data, "days_since_interaction", F(30, 1))

\* lines 254-257
attendance_score(data) ==
    IF "attendance_rate" \in data.columns
    THEN Column(data, "attendance_rate")
    ELSE ConstSeries(F(1, 2), Len(data.rows))

\* lines 259-262
satisfaction_score(data) ==
    IF "satisfaction_score" \in data.columns
    THEN SeriesDivScalar(Column(data, "satisfaction_score"), F(10, 1))
    ELSE ConstSeries(F(1, 2), Len(data.rows))

\* recency as days / max(days), not subtracted from 1
recency_score_raw(data) ==
    LET days == Column(data, "days_since_interaction")
    IN  SeriesDivScalar(days, SeriesMax(days))

\* line 265
recency_score(data) ==
    LET days == Column(data, "days_since_interaction")
    IN  SeriesRsubScalar(F(1, 1), SeriesDivScalar(days, SeriesMax(days)))

\* line 268; the column is read without a presence test
loyalty_score(data) ==
    LET dur == Column(data, "membership_duration_days")
    IN  SeriesDivScalar(dur, SeriesMax(dur))

\* lines 271-279: the weighted sum, then (x * 100).round(1)
engagement_score(data) ==
    LET weighted ==
            SeriesAdd(
                SeriesAdd(
                    SeriesAdd(
                        SeriesMulScalar(attendance_score(data), attendance_weight),
                        SeriesMulScalar(satisfaction_score(data), satisfaction_weight)),
                    SeriesMulScalar(recency_score(data), recency_weight)),
                SeriesMulScalar(loyalty_score(data), loyalty_weight))
        withRaw == SetColumn(data, "engagement_score", weighted)
    IN  SeriesRound(
            SeriesMulScalar(Column(withRaw, "engagement_score"), F(100, 1)), 1)

\* engagement_level with > where the code has >=
engagement_level_strict(score) ==
    IF FGt(score, F(75, 1)) THEN "High"
    ELSE IF FGt(score, F(50, 1)) THEN "Medium"
    ELSE IF FGt(score, F(25, 1)) THEN "Low"
    ELSE "Very Low"

\* lines 282-288: np.select over the >= conditions, first match wins
engagement_level(score) ==
    IF FGe(score, F(75, 1)) THEN "High"
    ELSE IF FGe(score, F(50, 1)) THEN "Medium"
    ELSE IF FGe(score, F(25, 1)) THEN "Low"
    ELSE "Very Low"

\* the guard without its len() == 0 half
MemberInputIsNone(membership_data) == membership_data.isNone

\* lines 231-232
MemberInputIsEmpty(membership_data) ==
    membership_data.isNone \/ Len(membership_data.rows) = 0

calculate_member_engagement(membership_data, today) ==
    IF MemberInputIsEmpty(membership_data) THEN ReturnNone
    \* line 234: None has no .copy()
    ELSE IF membership_data.isNone THEN Raise("AttributeError")
    ELSE
    LET data  == DataFrameCopy(membership_data).table
        data1 == WithDaysSinceInteraction(data, today)
    IN  IF "membership_duration_days" \notin data1.columns
        THEN Raise("KeyError")
        ELSE
        LET data2 == SetColumn(data1, "engagement_score", engagement_score(data1))
            data3 == SetColumn(data2, "engagement_level",
                        [l \in Range(data2.index) |->
                            engagement_level(Column(data2, "engagement_score")[l])])
        IN  Return(data3)

\* the caller's membership_data after the call: untouched by the early
\* return, and after line 234 whatever was assigned to data up to the exit
membership_data_after(membership_data, today) ==
    IF membership_data.isNone \/ MemberInputIsEmpty(membership_data)
    THEN membership_data
    ELSE LET ret == calculate_member_engagement(membership_data, today)
         IN  CallersTable(membership_data, DataFrameCopy(membership_data),
                IF ret.kind = "table" THEN ret.table
                ELSE WithDaysSinceInteraction(membership_data, today))

---------------------------------------------------------------------------
(* calculate_partnership_effectiveness, data_processor.py lines 292-342 *)

\* the duration without the correction for ongoing partnerships
partnership_duration_planned(row, today) ==
    F(Days(row["end_date"] - row["start_date"]), 1)

\* lines 308-313: (end_date - start_date).dt.days, and for the rows whose
\* end_date is after today, (today - start_date).dt.days
partnership_duration(row, today) ==
    IF row["end_date"] > today
    THEN F(Days(today - row["start_date"]), 1)
    ELSE F(Days(row["end_date"] - row["start_date"]), 1)

WithPartnershipDuration(data, today) ==
    IF "start_date" \in data.columns /\ "end_date" \in data.columns
    THEN SetColumn(data, "partnership_duration",
            [l \in Range(data.index) |->
                partnership_duration(
                    [c \in {"start_date", "end_date"} |-> Column(data, c)[l]],
                    today)])
    ELSE data

\* roi as value over cost, the cost not subtracted
WithRoiGross(data) ==
    IF "value_contribution" \in data.columns /\ "cost" \in data.columns
    THEN SetColumn(data, "roi",
            [l \in Range(data.index) |->
                FDiv(Column(data, "value_contribution")[l],
                     Column(data, "cost")[l])])
    ELSE IF "value_contribution" \in data.columns
    THEN SetColumn(data, "roi",
            SeriesDivScalar(Column(data, "value_contribution"), F(5000, 1)))
    ELSE data

\* lines 316-320
WithRoi(data) ==
    IF "value_contribution" \in data.columns /\ "cost" \in data.columns
    THEN SetColumn(data, "roi",
            [l \in Range(data.index) |->
                FDiv(FSub(Column(data, "value_contribution")[l],
                          Column(data, "cost")[l]),
                     Column(data, "cost")[l])])
    ELSE IF "value_contribution" \in data.columns
    THEN SetColumn(data, "roi",
            SeriesDivScalar(Column(data, "value_contribution"), F(5000, 1)))
    ELSE data

\* effectiveness_score with the sum of the two ratings left unhalved
effectiveness_score_sum(data) ==
    IF "performance_rating" \in data.columns /\ "alignment_score" \in data.columns
    THEN SeriesAdd(Column(data, "performance_rating"),
                   Column(data, "alignment_score"))
    ELSE IF "performance_rating" \in data.columns
    THEN Column(data, "performance_rating")
    ELSE IF "alignment_score" \in data.columns
    THEN Column(data, "alignment_score")
    ELSE [l \in Range(data.index) |-> F(5, 1)]

\* lines 323-331
effectiveness_score(data) ==
    IF "performance_rating" \in data.columns /\ "alignment_score" \in data.columns
    THEN SeriesDivScalar(
            SeriesAdd(Column(data, "performance_rating"),
                      Column(data, "alignment_score")),
            F(2, 1))
    ELSE IF "performance_rating" \in data.columns
    THEN Column(data, "performance_rating")
    ELSE IF "alignment_score" \in data.columns
    THEN Column(data, "alignment_score")
    ELSE [l \in Range(data.index) |-> F(5, 1)]

\* effectiveness_category with > where the code has >=
effectiveness_category_strict(score) ==
    IF FGt(score, F(8, 1)) THEN "High"
    ELSE IF FGt(score, F(6, 1)) THEN "Medium"
    ELSE IF FGt(score, F(4, 1)) THEN "Low"
    ELSE "Very Low"

\* lines 334-340
effectiveness_category(score) ==
    IF FGe(score, F(8, 1)) THEN "High"
    ELSE IF FGe(score, F(6, 1)) THEN "Medium"
    ELSE IF FGe(score, F(4, 1)) THEN "Low"
    ELSE "Very Low"

\* lines 302-303
PartnerInputIsEmpty(partnership_data) ==
    partnership_data.isNone \/ Len(partnership_data.rows) = 0

calculate_partnership_effectiveness(partnership_data, today) ==
    IF PartnerInputIsEmpty(partnership_data) THEN ReturnNone
    \* line 305: None has no .copy()
    ELSE IF partnership_data.isNone THEN Raise("AttributeError")
    ELSE
    LET data  == DataFrameCopy(partnership_data).table
        data1 == WithRoi(WithPartnershipDuration(data, today))
        data2 == SetColumn(data1, "effectiveness_score", effectiveness_score(data1))
        data3 == SetColumn(data2, "effectiveness_category",
                    [l \in Range(data2.index) |->
                        effectiveness_category(
                            Column(data2, "effectiveness_score")[l])])
    IN  Return(data3)

\* the caller's partnership_data after the call
partnership_data_after(partnership_data, today) ==
    IF partnership_data.isNone \/ PartnerInputIsEmpty(partnership_data)
    THEN partnership_data
    ELSE CallersTable(partnership_data, DataFrameCopy(partnership_data),
            calculate_partnership_effectiveness(partnership_data, today).table)

---------------------------------------------------------------------------
(* analyze_program_performance, data_processor.py lines 344-408 *)

SeriesAbs(s) == [l \in DOMAIN s |-> FAbs(s[l])]

\* enrollment_rate left unrounded
WithEnrollmentRateExact(data) ==
    IF "capacity" \in data.columns /\ "current_enrollment" \in data.columns
    THEN SetColumn(data, "enrollment_rate",
            [l \in Range(data.index) |->
                FDiv(Column(data, "current_enrollment")[l],
                     Column(data, "capacity")[l])])
    ELSE data

\* lines 360-361
WithEnrollmentRate(data) ==
    IF "capacity" \in data.columns /\ "current_enrollment" \in data.columns
    THEN SetColumn(data, "enrollment_rate",
            [l \in Range(data.index) |->
                FRound(FDiv(Column(data, "current_enrollment")[l],
                            Column(data, "capacity")[l]), 2)])
    ELSE data

\* the ratio also stored over expenses, the raw column normalised in place
WithBudgetUtilizationInPlace(data) ==
    IF "budget" \in data.columns /\ "expenses" \in data.columns
    THEN LET utilization ==
                [l \in Range(data.index) |->
                    FRound(FDiv(Column(data, "expenses")[l],
                                Column(data, "budget")[l]), 2)]
         IN  SetColumn(SetColumn(data, "budget_utilization", utilization),
                       "expenses", utilization)
    ELSE data

\* lines 364-365
WithBudgetUtilization(data) ==
    IF "budget" \in data.columns /\ "expenses" \in data.columns
    THEN SetColumn(data, "budget_utilization",
            [l \in Range(data.index) |->
                FRound(FDiv(Column(data, "expenses")[l],
                            Column(data, "budget")[l]), 2)])
    ELSE data

SeriesSubScalar(s, v) == [l \in DOMAIN s |-> FSub(s[l], v)]

\* the closeness clamped below at 0
budget_score_clamped(data) ==
    [l \in Range(data.index) |->
        LET b == FSub(F(1, 1),
                      FAbs(FSub(Column(data, "budget_utilization")[l], F(1, 1))))
        IN  IF FLt(b, F(0, 1)) THEN F(0, 1) ELSE b]

\* lines 385-386: 1 - abs(budget_utilization - 1)
budget_score(data) ==
    SeriesRsubScalar(F(1, 1),
        SeriesAbs(SeriesSubScalar(Column(data, "budget_utilization"), F(1, 1))))

\* lines 368-388: the sub-metrics that are available, each with its weight,
\* in the order the code appends them
performance_metrics(data) ==
    (IF "enrollment_rate" \in data.columns
        THEN <<[metric |-> Column(data, "enrollment_rate"), weight |-> F(3, 10)]>>
        ELSE <<>>)
    \o (IF "satisfaction_score" \in data.columns
        THEN <<[metric |-> SeriesDivScalar(Column(data, "satisfaction_score"),
                                           F(10, 1)),
                weight |-> F(4, 10)]>>
        ELSE <<>>)
    \o (IF "success_metric" \in data.columns
        THEN <<[metric |-> Column(data, "success_metric"), weight |-> F(3, 10)]>>
        ELSE <<>>)
    \o (IF "budget_utilization" \in data.columns
        THEN <<[metric |-> budget_score(data), weight |-> F(2, 10)]>>
        ELSE <<>>)

RECURSIVE SumWeights(_)
SumWeights(ms) ==
    IF ms = <<>> THEN F(0, 1)
    ELSE FAdd(SumWeights(SubSeq(ms, 1, Len(ms) - 1)), ms[Len(ms)].weight)

\* sum(weighted_metrics): Python's sum starts from the int 0
RECURSIVE SumWeighted(_, _, _)
SumWeighted(ms, total_weight, labels) ==
    IF ms = <<>> THEN [l \in labels |-> F(0, 1)]
    ELSE SeriesAdd(
            SumWeighted(SubSeq(ms, 1, Len(ms) - 1), total_weight, labels),
            SeriesMulScalar(ms[Len(ms)].metric,
                            FDiv(ms[Len(ms)].weight, total_weight)))

\* the weighted sum with the weights as listed, not divided by their total
performance_score_sum(data) ==
    LET ms == performance_metrics(data)
    IN  IF ms # <<>>
        THEN SeriesMulScalar(
                SumWeighted(ms, F(1, 1), Range(data.index)), F(100, 1))
        ELSE [l \in Range(data.index) |-> F(50, 1)]

\* lines 391-397
performance_score(data) ==
    LET ms == performance_metrics(data)
    IN  IF ms # <<>>
        THEN SeriesMulScalar(
                SumWeighted(ms, SumWeights(ms), Range(data.index)), F(100, 1))
        ELSE [l \in Range(data.index) |-> F(50, 1)]

\* the cutoffs as strict comparisons
performance_category_strict(score) ==
    IF FGt(score, F(80, 1)) THEN "High"
    ELSE IF FGt(score, F(60, 1)) THEN "Medium"
    ELSE IF FGt(score, F(40, 1)) THEN "Low"
    ELSE "Very Low"

\* lines 400-406
performance_category(score) ==
    IF FGe(score, F(80, 1)) THEN "High"
    ELSE IF FGe(score, F(60, 1)) THEN "Medium"
    ELSE IF FGe(score, F(40, 1)) THEN "Low"
    ELSE "Very Low"

\* lines 354-355
ProgramInputIsEmpty(program_data) ==
    program_data.isNone \/ Len(program_data.rows) = 0

analyze_program_performance(program_data) ==
    IF ProgramInputIsEmpty(program_data) THEN ReturnNone
    \* line 357: None has no .copy()
    ELSE IF program_data.isNone THEN Raise("AttributeError")
    ELSE
    LET data  == DataFrameCopy(program_data).table
        data1 == WithBudgetUtilization(WithEnrollmentRate(data))
        data2 == SetColumn(data1, "performance_score", performance_score(data1))
        data3 == SetColumn(data2, "performance_category",
                    [l \in Range(data2.index) |->
                        performance_category(
                            Column(data2, "performance_score")[l])])
    IN  Return(data3)

\* the caller's program_data after the call
program_data_after(program_data) ==
    IF program_data.isNone \/ ProgramInputIsEmpty(program_data)
    THEN program_data
    ELSE CallersTable(program_data, DataFrameCopy(program_data),
            analyze_program_performance(program_data).table)

---------------------------------------------------------------------------
(* find_similar_members, recommender.py lines 379-456 *)

\* None in the place of an empty frame, as the scorers return
NoDataFrame ==
    [isNone |-> TRUE, columns |-> {}, index |-> <<>>, rows |-> <<>>]

\* pd.DataFrame(): no columns, no rows
EmptyDataFrame ==
    [isNone |-> FALSE, columns |-> {}, index |-> <<>>, rows |-> <<>>]

\* lines 397-400
numeric_features ==
    {"satisfaction_score", "attendance_rate", "engagement_score",
     "membership_duration_days", "fees_paid"}

\* lines 403-405
categorical_features ==
    {"membership_type", "industry", "engagement_level", "location"}

\* line 417, pd.get_dummies: one indicator column per value that occurs in
\* the column, named here by the pair <<feature, value>>
get_dummies(data, feature) ==
    {<<feature, data.rows[p][feature]>> : p \in 1..Len(data.rows)}

\* lines 408-422: the numeric features present (the pair <<feature, "">>),
\* then the indicator columns of the categorical features present
feature_columns(data) ==
    {<<c, "">> : c \in numeric_features \cap data.columns}
    \cup UNION {get_dummies(data, c) : c \in categorical_features \cap data.columns}

\* line 429: the cell of X for the row at position p and the column f
X(data, p, f) ==
    IF f[2] = "" THEN data.rows[p][f[1]]
    ELSE IF data.rows[p][f[1]] = f[2] THEN F(1, 1) ELSE F(0, 1)

\* the sum of g[e] over the finite set S
RECURSIVE FSum(_, _)
FSum(g, S) ==
    IF S = {} THEN F(0, 1)
    ELSE LET e == CHOOSE x \in S : TRUE
         IN  FAdd(g[e], FSum(g, S \ {e}))

\* StandardScaler.fit: the mean and the population variance of column f
ColumnMean(data, f) ==
    LET P == 1..Len(data.rows)
    IN  FDiv(FSum([p \in P |-> X(data, p, f)], P), F(Len(data.rows), 1))

ColumnVar(data, f) ==
    LET P == 1..Len(data.rows)
        m == ColumnMean(data, f)
    IN  FDiv(FSum([p \in P |-> FMul(FSub(X(data, p, f), m),
                                      FSub(X(data, p, f), m))], P),
             F(Len(data.rows), 1))

\* lines 432-433, X_scaled: each column centred and divided by its standard
\* deviation, a constant column becoming 0 (its scale is taken as 1).  A
\* column is carried as its centred cells and its variance, the square root
\* being left to the products that use it.
X_scaled(data) ==
    [f \in feature_columns(data) |->
        LET m == ColumnMean(data, f)
        IN  [centred |-> [p \in 1..Len(data.rows) |-> FSub(X(data, p, f), m)],
             var     |-> ColumnVar(data, f)]]

\* the inner product of the rows at positions i and j of X_scaled
ScaledDot(Xs, i, j) ==
    FSum([f \in DOMAIN Xs |->
            IF Xs[f].var = F(0, 1) THEN F(0, 1)
            ELSE FDiv(FMul(Xs[f].centred[i], Xs[f].centred[j]), Xs[f].var)],
         DOMAIN Xs)

\* line 436, cosine_similarity(X_scaled)[i][j], carried as its signed
\* square dot * |dot| / (|x_i|^2 * |x_j|^2), which is rational and orders
\* pairs exactly as the cosine does; a row of norm 0 has similarity 0
cosine_similarity(Xs, i, j) ==
    LET dot == ScaledDot(Xs, i, j)
        ni  == ScaledDot(Xs, i, i)
        nj  == ScaledDot(Xs, j, j)
    IN  IF ni = F(0, 1) \/ nj = F(0, 1) THEN F(0, 1)
        ELSE FDiv(FMul(dot, FAbs(dot)), FMul(ni, nj))

\* line 391
SimilarInputIsEmpty(membership_data, member_id) ==
    \/ membership_data.isNone
    \/ Len(membership_data.rows) = 0
    \/ \A p \in 1..Len(membership_data.rows) :
            membership_data.rows[p]["member_id"] # member_id

\* line 439: the index label of the first row carrying member_id
target_index(data, member_id) ==
    LET first == CHOOSE p \in 1..Len(data.rows) :
                    /\ data.rows[p]["member_id"] = member_id
                    /\ \A q \in 1..(p - 1) : data.rows[q]["member_id"] # member_id
    IN  data.index[first]

\* lines 445-449: member_id and name under the table's labels, and beside
\* them row `target` of the similarity matrix taken by position
similarity_df(data, target) ==
    LET Xs == X_scaled(data)
        similarity_scores ==
            [p \in 1..Len(data.rows) |-> cosine_similarity(Xs, target + 1, p)]
    IN  [isNone  |-> FALSE,
         columns |-> {"member_id", "name", "similarity_score"},
         index   |-> data.index,
         rows    |-> [p \in 1..Len(data.rows) |->
                        [member_id |-> data.rows[p]["member_id"],
                         name |-> data.rows[p]["name"],
                         similarity_score |-> similarity_scores[p]]]]

\* the rows of df at the positions listed in order
TakeRows(df, order) ==
    [df EXCEPT !.index = [i \in 1..Len(order) |-> df.index[order[i]]],
               !.rows  = [i \in 1..Len(order) |-> df.rows[order[i]]]]

Min(a, b) == IF a <= b THEN a ELSE b

\* lines 452-456: the rows of another member_id, sorted by similarity_score
\* descending, the first n_similar of them.  sort_values does not fix the
\* order of equal scores, so every order they can come out in is a result.
TopSimilar(df, member_id, n_similar) ==
    LET others == {p \in 1..Len(df.rows) : df.rows[p]["member_id"] # member_id}
        m      == Min(n_similar, Cardinality(others))
        score(p) == df.rows[p]["similarity_score"]
    IN  {TakeRows(df, order) : order \in
            {o \in [1..m -> others] :
                /\ \A i, j \in 1..m : i < j =>
                        /\ o[i] # o[j]
                        /\ FGe(score(o[i]), score(o[j]))
                /\ \A q \in others \ Range(o) :
                        \A i \in 1..m : FGe(score(o[i]), score(q))}}

\* every result a call can produce
find_similar_members(membership_data, member_id, n_similar) ==
    IF SimilarInputIsEmpty(membership_data, member_id)
    THEN {Return(EmptyDataFrame)}
    ELSE
    LET encoded_data == DataFrameCopy(membership_data).table
    IN  IF feature_columns(encoded_data) = {}
        THEN {Return(EmptyDataFrame)}
        ELSE
        LET target == target_index(encoded_data, member_id)
        IN  \* line 442: the label is used as a position of the matrix
            IF target >= Len(encoded_data.rows)
            THEN {Raise("IndexError")}
            ELSE {Return(t) :
                    t \in TopSimilar(similarity_df(encoded_data, target),
                                     member_id, n_similar)}

---------------------------------------------------------------------------
(* Inputs *)

member_vars == <<member_arg, member_ret>>

partner_vars == <<partner_arg, partner_ret>>

program_vars == <<program_arg, program_ret>>

similar_vars == <<similar_arg, similar_id, similar_k, similar_ret>>

import_vars == <<content_calendar, uploaded_file, upload_type, upload_ret>>

\* nothing has been uploaded and there is no content calendar
NoImport ==
    /\ content_calendar = NoTable
    /\ uploaded_file = NoTable
    /\ upload_type = ""
    /\ upload_ret = Pending

\* no call of find_similar_members is under way
SimilarIdle ==
    /\ similar_arg = NoTable
    /\ similar_id = ""
    /\ similar_k = 0
    /\ similar_ret = Pending

MaxMembers == 2

\* all rows over the columns cols, the cell of column c drawn from Domain[c]
RECURSIVE RowsOver(_, _)
RowsOver(cols, Domain) ==
    IF cols = {} THEN {[k \in {} |-> 0]}
    ELSE LET c == CHOOSE x \in cols : TRUE
         IN  {[k \in cols |-> IF k = c THEN v ELSE r[k]] :
                r \in RowsOver(cols \ {c}, Domain), v \in Domain[c]}

\* all tables with the columns cols and one row per label of index
TablesOver(cols, index, Domain) ==
    {[isNone |-> FALSE, columns |-> cols, index |-> index, rows |-> rows] :
        rows \in [1..Len(index) -> RowsOver(cols, Domain)]}

\* the row labels of a table of n rows: a freshly read table (RangeIndex),
\* or one whose first row was filtered away (labels 1..n)
IndexChoices(n) == {RangeIndex(n), [p \in 1..n |-> p]}

MemberColumns ==
    {"attendance_rate", "satisfaction_score", "last_interaction",
     "membership_duration_days"}

MemberDomain(today) ==
    [c \in MemberColumns |->
        CASE c = "attendance_rate" ->
                {F(1, 2), F(83, 100), F(1, 1)}
          [] c = "satisfaction_score" -> {F(0, 1), F(10, 1)}
          [] c = "last_interaction" ->
                {today, today - 1, today - TicksPerDay}
          [] c = "membership_duration_days" -> {F(0, 1), F(1, 1), F(2, 1)}]

NowTick == 4

InitMember ==
    /\ now = NowTick
    /\ \/ member_arg = NoTable
       \/ \E cols \in SUBSET MemberColumns, n \in 0..MaxMembers :
            \E index \in IndexChoices(n) :
                member_arg \in TablesOver(cols, index, MemberDomain(now))
    /\ member_ret = Pending
    /\ partner_arg = NoTable
    /\ partner_ret = Pending
    /\ program_arg = NoTable
    /\ program_ret = Pending
    /\ rescore_ret = Pending
    /\ NoImport
    /\ SimilarIdle

CalculateMemberEngagement ==
    /\ member_ret.kind = "pending"
    /\ member_ret' = calculate_member_engagement(member_arg, now)
    /\ member_arg' = membership_data_after(member_arg, now)
    /\ UNCHANGED <<now, partner_vars, program_vars, rescore_ret, similar_vars, import_vars>>

NextMember == CalculateMemberEngagement

SpecMember == InitMember /\ [][NextMember]_vars

MaxPartners == 1

PartnerColumns ==
    {"start_date", "end_date", "value_contribution", "cost",
     "performance_rating", "alignment_score"}

PartnerDomain(today) ==
    [c \in PartnerColumns |->
        CASE c = "start_date" -> {today - 3, today + 1}
          [] c = "end_date" -> {today - 1, today, today + 2}
          [] c = "value_contribution" -> {F(5000, 1), F(10000, 1)}
          [] c = "cost" -> {F(0, 1), F(5000, 1)}
          [] c = "performance_rating" -> {F(1, 1), F(6, 1), F(7, 1)}
          [] c = "alignment_score" -> {F(1, 1), F(6, 1), F(8, 1), F(10, 1)}]

InitPartner ==
    /\ now = NowTick
    /\ member_arg = NoTable
    /\ member_ret = Pending
    /\ \/ partner_arg = NoTable
       \/ \E cols \in SUBSET PartnerColumns, n \in 0..MaxPartners :
            partner_arg \in TablesOver(cols, RangeIndex(n), PartnerDomain(now))
    /\ partner_ret = Pending
    /\ program_arg = NoTable
    /\ program_ret = Pending
    /\ rescore_ret = Pending
    /\ NoImport
    /\ SimilarIdle

CalculatePartnershipEffectiveness ==
    /\ partner_ret.kind = "pending"
    /\ partner_ret' = calculate_partnership_effectiveness(partner_arg, now)
    /\ partner_arg' = partnership_data_after(partner_arg, now)
    /\ UNCHANGED <<now, member_vars, program_vars, rescore_ret, similar_vars, import_vars>>

NextPartner == CalculatePartnershipEffectiveness

SpecPartner == InitPartner /\ [][NextPartner]_vars

MaxPrograms == 1

ProgramColumns ==
    {"capacity", "current_enrollment", "budget", "expenses",
     "satisfaction_score", "success_metric"}

ProgramDomain ==
    [c \in ProgramColumns |->
        CASE c = "capacity" -> {F(0, 1), F(2, 1), F(3, 1)}
          [] c = "current_enrollment" -> {F(0, 1), F(2, 1), F(4, 1)}
          [] c = "budget" -> {F(0, 1), F(1000, 1), F(2000, 1)}
          [] c = "expenses" -> {F(0, 1), F(1000, 1), F(5000, 1)}
          [] c = "satisfaction_score" -> {F(0, 1), F(10, 1)}
          [] c = "success_metric" -> {F(1, 2), F(1, 1)}]

InitProgram ==
    /\ now = NowTick
    /\ member_arg = NoTable
    /\ member_ret = Pending
    /\ partner_arg = NoTable
    /\ partner_ret = Pending
    /\ \/ program_arg = NoTable
       \/ \E cols \in SUBSET ProgramColumns, n \in 0..MaxPrograms :
            program_arg \in TablesOver(cols, RangeIndex(n), ProgramDomain)
    /\ program_ret = Pending
    /\ rescore_ret = Pending
    /\ NoImport
    /\ SimilarIdle

AnalyzeProgramPerformance ==
    /\ program_ret.kind = "pending"
    /\ program_ret' = analyze_program_performance(program_arg)
    /\ program_arg' = program_data_after(program_arg)
    /\ UNCHANGED <<now, member_vars, partner_vars, rescore_ret, similar_vars, import_vars>>

\* the table the first run returned, derived columns included, is handed to
\* the scorer a second time
RescoreProgram ==
    /\ program_ret.kind = "table"
    /\ rescore_ret.kind = "pending"
    /\ rescore_ret' = analyze_program_performance(program_ret.table)
    /\ program_ret' =
            [program_ret EXCEPT !.table = program_data_after(program_ret.table)]
    /\ UNCHANGED <<now, member_vars, partner_vars, program_arg, similar_vars, import_vars>>

NextProgram ==
    \/ AnalyzeProgramPerformance
    \/ RescoreProgram

SpecProgram == InitProgram /\ [][NextProgram]_vars

MaxSimilarRows == 3

MaxK == 2

SimilarColumns == {"member_id", "name", "satisfaction_score", "membership_type"}

SimilarDomain ==
    [c \in SimilarColumns |->
        CASE c = "member_id" -> {"M1", "M2"}
          [] c = "name" -> {"Ann"}
          [] c = "satisfaction_score" -> {F(5, 1), F(10, 1)}
          [] c = "membership_type" -> {"Corporate", "Individual"}]

\* member_id and name are always there (the page tests for both before the
\* call); the identifier asked for is in the table (M1) or not (M3)
InitSimilar ==
    /\ now = NowTick
    /\ member_arg = NoTable
    /\ member_ret = Pending
    /\ partner_arg = NoTable
    /\ partner_ret = Pending
    /\ program_arg = NoTable
    /\ program_ret = Pending
    /\ rescore_ret = Pending
    /\ NoImport
    /\ \/ similar_arg = NoTable
       \/ \E cols \in SUBSET {"satisfaction_score", "membership_type"},
             n \in 0..MaxSimilarRows :
            \E index \in IndexChoices(n) :
                similar_arg \in TablesOver({"member_id", "name"} \cup cols,
                                          index, SimilarDomain)
    /\ similar_id \in {"M1", "M3"}
    /\ similar_k \in 1..MaxK
    /\ similar_ret = Pending

FindSimilarMembers ==
    /\ similar_ret.kind = "pending"
    /\ similar_ret' \in find_similar_members(similar_arg, similar_id, similar_k)
    /\ UNCHANGED <<now, member_vars, partner_vars, program_vars, rescore_ret,
                   similar_arg, similar_id, similar_k, import_vars>>

NextSimilar == FindSimilarMembers

SpecSimilar == InitSimilar /\ [][NextSimilar]_vars

\* the table the first run returned is handed to the scorer a second time
RescoreMember ==
    /\ member_ret.kind = "table"
    /\ rescore_ret.kind = "pending"
    /\ rescore_ret' = calculate_member_engagement(member_ret.table, now)
    /\ member_ret' =
            [member_ret EXCEPT !.table = membership_data_after(member_ret.table, now)]
    /\ UNCHANGED <<now, member_arg, partner_vars, program_vars, similar_vars, import_vars>>

RescorePartner ==
    /\ partner_ret.kind = "table"
    /\ rescore_ret.kind = "pending"
    /\ rescore_ret' = calculate_partnership_effectiveness(partner_ret.table, now)
    /\ partner_ret' =
            [partner_ret EXCEPT !.table = partnership_data_after(partner_ret.table, now)]
    /\ UNCHANGED <<now, member_vars, partner_arg, program_vars, similar_vars, import_vars>>

\* the tables of one session: a few values per column
SessionMemberDomain(today) ==
    [c \in MemberColumns |->
        CASE c = "attendance_rate" -> {F(0, 1), F(1, 1)}
          [] c = "satisfaction_score" -> {F(0, 1), F(10, 1)}
          [] c = "last_interaction" -> {today, today - 30 * TicksPerDay}
          [] c = "membership_duration_days" -> {F(0, 1), F(100, 1)}]

SessionPartnerDomain(today) ==
    [c \in PartnerColumns |->
        CASE c = "start_date" -> {today - 3}
          [] c = "end_date" -> {today - 1, today + 2}
          [] c = "value_contribution" -> {F(10000, 1)}
          [] c = "cost" -> {F(5000, 1)}
          [] c = "performance_rating" -> {F(7, 1)}
          [] c = "alignment_score" -> {F(8, 1)}]

SessionProgramDomain ==
    [c \in ProgramColumns |->
        CASE c = "capacity" -> {F(3, 1)}
          [] c = "current_enrollment" -> {F(2, 1)}
          [] c = "budget" -> {F(1000, 1)}
          [] c = "expenses" -> {F(1000, 1), F(2000, 1), F(5000, 1)}
          [] c = "satisfaction_score" -> {F(10, 1)}
          [] c = "success_metric" -> {F(1, 2)}]

SessionSimilarDomain ==
    [c \in SimilarColumns |->
        CASE c = "member_id" -> {"M1", "M2"}
          [] c = "name" -> {"Ann"}
          [] c = "satisfaction_score" -> {F(5, 1), F(10, 1)}
          [] c = "membership_type" -> {"Corporate"}]

\* one kind of table has been uploaded and its page is opened
InitPages ==
    /\ now = NowTick
    /\ member_ret = Pending
    /\ partner_ret = Pending
    /\ program_ret = Pending
    /\ rescore_ret = Pending
    /\ NoImport
    /\ similar_ret = Pending
    /\ \/ /\ \E cols \in SUBSET MemberColumns, n \in 0..MaxMembers :
                \E index \in IndexChoices(n) :
                    member_arg \in TablesOver(cols, index, SessionMemberDomain(now))
          /\ partner_arg = NoTable
          /\ program_arg = NoTable
          /\ similar_arg = NoTable /\ similar_id = "" /\ similar_k = 0
       \/ /\ member_arg = NoTable
          /\ \E cols \in SUBSET PartnerColumns, n \in 0..MaxPartners :
                partner_arg \in TablesOver(cols, RangeIndex(n),
                                           SessionPartnerDomain(now))
          /\ program_arg = NoTable
          /\ similar_arg = NoTable /\ similar_id = "" /\ similar_k = 0
       \/ /\ member_arg = NoTable
          /\ partner_arg = NoTable
          /\ \E cols \in SUBSET ProgramColumns, n \in 0..MaxPrograms :
                program_arg \in TablesOver(cols, RangeIndex(n), SessionProgramDomain)
          /\ similar_arg = NoTable /\ similar_id = "" /\ similar_k = 0
       \/ /\ member_arg = NoTable
          /\ partner_arg = NoTable
          /\ program_arg = NoTable
          /\ \E cols \in SUBSET {"satisfaction_score", "membership_type"},
                n \in 0..MaxSimilarRows :
                \E index \in IndexChoices(n) :
                    similar_arg \in TablesOver({"member_id", "name"} \cup cols,
                                              index, SessionSimilarDomain)
          /\ similar_id = "M1"
          /\ similar_k \in 1..MaxK

\* a page returns before the call when its table is None
MembershipPage == ~member_arg.isNone /\ CalculateMemberEngagement

PartnershipsPage == ~partner_arg.isNone /\ CalculatePartnershipEffectiveness

ProgramsPage == ~program_arg.isNone /\ AnalyzeProgramPerformance

SimilarMembersTab == ~similar_arg.isNone /\ FindSimilarMembers

NextPages ==
    \/ MembershipPage
    \/ PartnershipsPage
    \/ ProgramsPage
    \/ SimilarMembersTab
    \/ RescoreMember
    \/ RescorePartner
    \/ RescoreProgram

SpecPages == InitPages /\ [][NextPages]_vars

---------------------------------------------------------------------------
(* process_uploaded_data and load_sample_data, data_processor.py lines 6-219 *)

DataTypes == {"membership", "partnership", "program", "content"}

\* a date cell as pd.read_csv leaves it: text, which pd.to_datetime turns
\* into the timestamp tick or fails to parse
DateText(t) == [parses |-> TRUE, tick |-> t]

NotADate == [parses |-> FALSE, tick |-> 0]

\* pd.to_datetime(data[c]) raises when a cell is no date
CanParse(data, c) == \A p \in 1..Len(data.rows) : data.rows[p][c].parses

\* data[c] = pd.to_datetime(data[c])
to_datetime(data, c) ==
    SetColumn(data, c, [l \in Range(data.index) |-> Column(data, c)[l].tick])

required_columns(data_type) ==
    CASE data_type = "membership" ->
            {"member_id", "name", "join_date", "membership_type"}
      [] data_type = "partnership" ->
            {"partner_id", "name", "partnership_type", "start_date"}
      [] data_type = "program" ->
            {"program_id", "name", "start_date", "status"}
      [] data_type = "content" ->
            {"content_id", "title", "content_type", "publish_date"}

missing_columns_ignored(data, data_type) == {}

missing_columns(data, data_type) == required_columns(data_type) \ data.columns

\* the columns converted "if present"
date_columns(data_type) ==
    CASE data_type = "membership" -> {"join_date"}
      [] data_type = "partnership" -> {"start_date", "end_date"}
      [] data_type = "program" -> {"start_date", "end_date"}
      [] data_type = "content" -> {"publish_date"}

RECURSIVE ConvertDates(_, _)
ConvertDates(data, cols) ==
    IF cols = {} THEN data
    ELSE LET c == CHOOSE x \in cols : TRUE
         IN  ConvertDates(to_datetime(data, c), cols \ {c})

\* data["membership_duration_days"] = (datetime.now() - data["join_date"]).dt.days
WithMembershipDuration(data, today) ==
    SetColumn(data, "membership_duration_days",
              [l \in Range(data.index) |->
                  F(Days(today - Column(data, "join_date")[l]), 1)])

\* data is the table pd.read_csv made of the uploaded file
process_uploaded_data(data, data_type, today) ==
    LET dates == date_columns(data_type) \cap data.columns
    IN  IF missing_columns(data, data_type) # {} THEN Raise("ValueError")
        ELSE IF \E c \in dates : ~CanParse(data, c) THEN Raise("ValueError")
        ELSE LET parsed == ConvertDates(data, dates)
             IN  IF data_type # "membership" THEN Return(parsed)
                 ELSE IF "join_date" \notin parsed.columns THEN Raise("KeyError")
                 ELSE Return(WithMembershipDuration(parsed, today))

\* df.loc[df[end] < today, "status"] = past
\* df.loc[(df[start] > today) & (df["status"] not in kept), "status"] = future
update_status(df, today, end, start, past, future, kept) ==
    [df EXCEPT !.rows =
        [p \in 1..Len(df.rows) |->
            LET row == df.rows[p]
                first == IF row[end] < today THEN past ELSE row["status"]
            IN  [row EXCEPT !["status"] =
                    IF row[start] > today /\ first \notin kept
                    THEN future ELSE first]]]

\* if current_enrollment > capacity: current_enrollment = capacity, row by row
clamp_enrollment(df) ==
    [df EXCEPT !.rows =
        [p \in 1..Len(df.rows) |->
            LET row == df.rows[p]
            IN  [row EXCEPT !["current_enrollment"] =
                    IF FGt(row["current_enrollment"], row["capacity"])
                    THEN row["capacity"] ELSE @]]]

\* the columns of the generated tables that the scorers and the date rules read
SampleColumns(data_type) ==
    CASE data_type = "membership" ->
            {"member_id", "name", "join_date", "membership_type",
             "satisfaction_score", "engagement_level", "last_interaction",
             "attendance_rate"}
      [] data_type = "partnership" ->
            {"partner_id", "name", "partnership_type", "start_date",
             "end_date", "status", "value_contribution",
             "performance_rating", "alignment_score"}
      [] data_type = "program" ->
            {"program_id", "name", "start_date", "end_date", "status",
             "capacity", "current_enrollment", "satisfaction_score",
             "budget", "expenses", "success_metric"}
      [] data_type = "content" ->
            {"content_id", "title", "content_type", "publish_date", "status"}

\* a few of the values the random draws can produce
SampleDomain(data_type, today) ==
    [c \in SampleColumns(data_type) |->
        CASE c \in {"member_id", "partner_id", "program_id", "content_id"} ->
                {"0001"}
          [] c \in {"name", "title"} -> {"Organization 1"}
          [] c = "join_date" -> {today - 30 * TicksPerDay}
          [] c = "membership_type" -> {"Basic"}
          [] c = "engagement_level" -> {"High"}
          [] c = "last_interaction" -> {today - TicksPerDay}
          [] c = "attendance_rate" -> {F(1, 2)}
          [] c = "partnership_type" -> {"Funding"}
          [] c = "content_type" -> {"Newsletter"}
          [] c = "start_date" -> {today - 30 * TicksPerDay}
          [] c = "end_date" -> {today - TicksPerDay, today + TicksPerDay}
          [] c = "publish_date" -> {today + TicksPerDay}
          [] c = "status" ->
                IF data_type = "content" THEN {"Published"} ELSE {"Active"}
          [] c = "value_contribution" -> {F(5000, 1)}
          [] c = "performance_rating" -> {F(7, 1)}
          [] c = "alignment_score" -> {F(8, 1)}
          [] c = "capacity" -> {F(10, 1)}
          [] c = "current_enrollment" -> {F(50, 1)}
          [] c = "satisfaction_score" -> {F(5, 1)}
          [] c = "budget" -> {F(1000, 1)}
          [] c = "expenses" -> {F(500, 1)}
          [] c = "success_metric" -> {F(1, 2)}]

MaxRecords == 1

\* pd.DataFrame(data) of the random draws
SampleFrames(data_type, today) ==
    TablesOver(SampleColumns(data_type), RangeIndex(MaxRecords),
               SampleDomain(data_type, today))

\* the tables load_sample_data can return
load_sample_data(data_type, today) ==
    CASE data_type = "membership" ->
            {WithMembershipDuration(df, today) :
                df \in SampleFrames(data_type, today)}
      [] data_type = "partnership" ->
            {update_status(df, today, "end_date", "start_date",
                           "Completed", "Pending", {"Negotiation"}) :
                df \in SampleFrames(data_type, today)}
      [] data_type = "program" ->
            {clamp_enrollment(
                update_status(df, today, "end_date", "start_date",
                              "Completed", "Planned", {"On Hold"})) :
                df \in SampleFrames(data_type, today)}
      [] data_type = "content" ->
            {update_status(df, today, "publish_date", "publish_date",
                           "Published", "Scheduled", {"Idea", "Draft"}) :
                df \in SampleFrames(data_type, today)}

---------------------------------------------------------------------------
(* The session: the import panel of app.py lines 15-70 and the pages *)

\* the columns a CSV file of each type may carry beside the required ones
CsvOptional(data_type) ==
    CASE data_type = "membership" -> {"membership_duration_days"}
      [] data_type = "partnership" -> {"end_date", "status"}
      [] data_type = "program" -> {"capacity", "current_enrollment"}
      [] data_type = "content" -> {}

\* the required column that some files of each type lack
CsvDropped(data_type) ==
    CASE data_type = "membership" -> "join_date"
      [] data_type = "partnership" -> "start_date"
      [] data_type = "program" -> "status"
      [] data_type = "content" -> "title"

CsvDomain(data_type, today) ==
    [c \in required_columns(data_type) \cup CsvOptional(data_type) |->
        CASE c \in {"member_id", "partner_id", "program_id", "content_id"} ->
                {"0001"}
          [] c \in {"name", "title"} -> {"Organization 1"}
          [] c = "membership_type" -> {"Corporate"}
          [] c = "partnership_type" -> {"Funding"}
          [] c = "content_type" -> {"Newsletter"}
          [] c = "join_date" -> {DateText(today - 3), DateText(today + 1)}
          [] c = "membership_duration_days" -> {F(7, 1)}
          [] c = "start_date" -> {DateText(today - 3)}
          [] c = "end_date" ->
                {DateText(today - 1), DateText(today + 2), NotADate}
          [] c = "publish_date" -> {DateText(today + 1)}
          [] c = "status" -> {"Active"}
          [] c = "capacity" -> {F(2, 1)}
          [] c = "current_enrollment" -> {F(1, 1), F(4, 1)}]

\* the files of one type: complete ones, and ones that lack a required column
CsvFiles(data_type, today) ==
    LET all == required_columns(data_type) \cup CsvOptional(data_type)
    IN  UNION {TablesOver(cols, RangeIndex(MaxRecords),
                          CsvDomain(data_type, today)) :
                cols \in {all, all \ {CsvDropped(data_type)}}}

\* app.py lines 15-23: the four tables start as None
InitSession ==
    /\ now = NowTick
    /\ member_arg = NoTable
    /\ partner_arg = NoTable
    /\ program_arg = NoTable
    /\ member_ret = Pending
    /\ partner_ret = Pending
    /\ program_ret = Pending
    /\ rescore_ret = Pending
    /\ NoImport
    /\ SimilarIdle

\* st.session_state.<slot> = process_uploaded_data(...) inside try/except:
\* the assignment happens only when the call returned
StoreUpload(current, ret, data_type, slot) ==
    IF ret.kind = "table" /\ data_type = slot THEN ret.table ELSE current

\* app.py lines 46-62: a file of the selected type is uploaded
Upload ==
    \E data_type \in DataTypes :
        \E file \in CsvFiles(data_type, now) :
            LET ret == process_uploaded_data(file, data_type, now)
            IN  /\ uploaded_file' = file
                /\ upload_type' = data_type
                /\ upload_ret' = ret
                /\ member_arg' = StoreUpload(member_arg, ret, data_type, "membership")
                /\ partner_arg' = StoreUpload(partner_arg, ret, data_type, "partnership")
                /\ program_arg' = StoreUpload(program_arg, ret, data_type, "program")
                /\ content_calendar' =
                        StoreUpload(content_calendar, ret, data_type, "content")
                /\ member_ret' = Pending
                /\ partner_ret' = Pending
                /\ program_ret' = Pending
                /\ UNCHANGED <<now, rescore_ret, similar_vars>>

\* app.py lines 65-70: the Load Sample Data button
LoadSampleData ==
    /\ member_arg' \in load_sample_data("membership", now)
    /\ partner_arg' \in load_sample_data("partnership", now)
    /\ program_arg' \in load_sample_data("program", now)
    /\ content_calendar' \in load_sample_data("content", now)
    /\ uploaded_file' = NoTable
    /\ upload_type' = ""
    /\ upload_ret' = Pending
    /\ member_ret' = Pending
    /\ partner_ret' = Pending
    /\ program_ret' = Pending
    /\ UNCHANGED <<now, rescore_ret, similar_vars>>

PageStoresResult(session_after, result) ==
    IF result.kind = "table" THEN result.table ELSE session_after

\* membership_data = calculate_member_engagement(st.session_state.membership_data):
\* the result is bound to a name of the page, the session keeps its object
PageLocal(session_after, result) == session_after

\* the uploader belongs to the main page: its file is gone on another page
UploaderGone ==
    /\ uploaded_file' = NoTable
    /\ upload_type' = ""
    /\ upload_ret' = Pending

\* pages/membership.py lines 14-19
ViewMembershipPage ==
    /\ ~member_arg.isNone
    /\ member_ret' = calculate_member_engagement(member_arg, now)
    /\ member_arg' = PageLocal(membership_data_after(member_arg, now),
                               calculate_member_engagement(member_arg, now))
    /\ partner_ret' = Pending
    /\ program_ret' = Pending
    /\ UploaderGone
    /\ UNCHANGED <<now, partner_arg, program_arg, content_calendar,
                   rescore_ret, similar_vars>>

\* pages/partnerships.py lines 14-19
ViewPartnershipsPage ==
    /\ ~partner_arg.isNone
    /\ partner_ret' = calculate_partnership_effectiveness(partner_arg, now)
    /\ partner_arg' = PageLocal(partnership_data_after(partner_arg, now),
                                calculate_partnership_effectiveness(partner_arg, now))
    /\ member_ret' = Pending
    /\ program_ret' = Pending
    /\ UploaderGone
    /\ UNCHANGED <<now, member_arg, program_arg, content_calendar,
                   rescore_ret, similar_vars>>

\* pages/programs.py lines 14-19
ViewProgramsPage ==
    /\ ~program_arg.isNone
    /\ program_ret' = analyze_program_performance(program_arg)
    /\ program_arg' = PageLocal(program_data_after(program_arg),
                                analyze_program_performance(program_arg))
    /\ member_ret' = Pending
    /\ partner_ret' = Pending
    /\ UploaderGone
    /\ UNCHANGED <<now, member_arg, partner_arg, content_calendar,
                   rescore_ret, similar_vars>>

\* pages/insights.py lines 19-35: every table that is there is scored
ViewInsightsPage ==
    /\ ~(member_arg.isNone /\ partner_arg.isNone /\ program_arg.isNone)
    /\ IF member_arg.isNone THEN UNCHANGED member_arg /\ member_ret' = Pending
       ELSE /\ member_ret' = calculate_member_engagement(member_arg, now)
            /\ member_arg' = PageLocal(membership_data_after(member_arg, now),
                                       calculate_member_engagement(member_arg, now))
    /\ IF partner_arg.isNone THEN UNCHANGED partner_arg /\ partner_ret' = Pending
       ELSE /\ partner_ret' = calculate_partnership_effectiveness(partner_arg, now)
            /\ partner_arg' =
                    PageLocal(partnership_data_after(partner_arg, now),
                              calculate_partnership_effectiveness(partner_arg, now))
    /\ IF program_arg.isNone THEN UNCHANGED program_arg /\ program_ret' = Pending
       ELSE /\ program_ret' = analyze_program_performance(program_arg)
            /\ program_arg' = PageLocal(program_data_after(program_arg),
                                        analyze_program_performance(program_arg))
    /\ UploaderGone
    /\ UNCHANGED <<now, content_calendar, rescore_ret, similar_vars>>

NextSession ==
    \/ Upload
    \/ LoadSampleData
    \/ ViewMembershipPage
    \/ ViewPartnershipsPage
    \/ ViewProgramsPage
    \/ ViewInsightsPage

SpecSession == InitSession /\ [][NextSession]_vars

\* one call of one scorer on one table
Init == InitMember \/ InitPartner \/ InitProgram

Next ==
    \/ CalculateMemberEngagement
    \/ CalculatePartnershipEffectiveness
    \/ AnalyzeProgramPerformance

Spec == Init /\ [][Next]_vars

\* the zero-row tables over a set of columns, and no table at all
EmptyTables(columns) ==
    {NoTable} \cup
    {[isNone |-> FALSE, columns |-> cols, index |-> <<>>, rows |-> <<>>] :
        cols \in SUBSET columns}

\* one scorer is handed an absent or empty table
InitEmpty ==
    /\ now = NowTick
    /\ member_ret = Pending
    /\ partner_ret = Pending
    /\ program_ret = Pending
    /\ rescore_ret = Pending
    /\ NoImport
    /\ SimilarIdle
    /\ \/ /\ member_arg \in EmptyTables(MemberColumns)
          /\ partner_arg = NoTable
          /\ program_arg = NoTable
       \/ /\ member_arg = NoTable
          /\ partner_arg \in EmptyTables(PartnerColumns)
          /\ program_arg = NoTable
       \/ /\ member_arg = NoTable
          /\ partner_arg = NoTable
          /\ program_arg \in EmptyTables(ProgramColumns)

SpecEmpty == InitEmpty /\ [][Next]_vars

---------------------------------------------------------------------------
(* Properties of calculate_member_engagement *)

\* the call has returned a table
MemberScored == member_ret.kind = "table"

\* the input as line 240 leaves it, with days_since_interaction
MemberData == WithDaysSinceInteraction(member_arg, now)

MemberOut(p) == member_ret.table.rows[p]

MemberPositions == 1..Len(member_ret.table.rows)

\* C1: for a non-empty member table with all four source columns (attendance
\* in [0,1], satisfaction in [0,10], days since interaction and membership
\* duration non-negative), every row's engagement_score lies in [0,100].
C1_EngagementScoreInRange ==
    (MemberScored /\ member_arg.columns = MemberColumns) =>
        \A p \in MemberPositions :
            /\ FGe(MemberOut(p)["engagement_score"], F(0, 1))
            /\ FLe(MemberOut(p)["engagement_score"], F(100, 1))

\* C2: engagement_level follows engagement_score by the cutoffs 75, 50, 25,
\* a score on a cutoff falling in the higher bucket.
C2_LevelMatchesCutoffs ==
    MemberScored =>
        \A p \in MemberPositions :
            LET score == MemberOut(p)["engagement_score"]
                level == MemberOut(p)["engagement_level"]
            IN  /\ FGe(score, F(75, 1)) => level = "High"
                /\ (FGe(score, F(50, 1)) /\ FLt(score, F(75, 1))) => level = "Medium"
                /\ (FGe(score, F(25, 1)) /\ FLt(score, F(50, 1))) => level = "Low"
                /\ FLt(score, F(25, 1)) => level = "Very Low"

\* a table scored with one row exactly on the cutoff (75.0, High) and one row
\* just below it (74.9, Medium)
C2_Witness ==
    /\ MemberScored
    /\ \E p \in MemberPositions :
        /\ MemberOut(p)["engagement_score"] = F(75, 1)
        /\ MemberOut(p)["engagement_level"] = "High"
    /\ \E p \in MemberPositions :
        /\ MemberOut(p)["engagement_score"] = F(749, 10)
        /\ MemberOut(p)["engagement_level"] = "Medium"

\* C3: each of the four sub-scores is 0.5 for every row when its source
\* column is missing from the table.
C3_NeutralSubScores ==
    (member_ret.kind # "pending" /\ ~MemberInputIsEmpty(member_arg)) =>
        LET labels == Range(member_arg.index)
        IN  /\ "attendance_rate" \notin member_arg.columns =>
                \A l \in labels :
                    /\ l \in DOMAIN attendance_score(MemberData)
                    /\ attendance_score(MemberData)[l] = F(1, 2)
            /\ "satisfaction_score" \notin member_arg.columns =>
                \A l \in labels :
                    /\ l \in DOMAIN satisfaction_score(MemberData)
                    /\ satisfaction_score(MemberData)[l] = F(1, 2)
            /\ "last_interaction" \notin member_arg.columns =>
                \A l \in labels : recency_score(MemberData)[l] = F(1, 2)
            /\ "membership_duration_days" \notin member_arg.columns =>
                /\ MemberScored
                /\ \A l \in labels : loyalty_score(MemberData)[l] = F(1, 2)

\* C6: when the largest days_since_interaction of the table is 0, the recency
\* sub-score of every row is 1.0 and engagement_score is a number.
C6_RecencyGuarded ==
    (/\ MemberScored
     /\ member_arg.columns = MemberColumns
     /\ SeriesMax(Column(MemberData, "days_since_interaction")) = F(0, 1)
     /\ FGt(SeriesMax(Column(MemberData, "membership_duration_days")), F(0, 1)))
    => /\ \A l \in Range(member_arg.index) :
            recency_score(MemberData)[l] = F(1, 1)
       /\ \A p \in MemberPositions :
            IsFinite(MemberOut(p)["engagement_score"])

\* C7: the loyalty sub-score is membership_duration_days over its table-wide
\* maximum, and when that maximum is 0 engagement_score is still a number.
C7_LoyaltyGuarded ==
    (/\ MemberScored
     /\ member_arg.columns = MemberColumns
     /\ FGt(SeriesMax(Column(MemberData, "days_since_interaction")), F(0, 1)))
    => LET dur == Column(MemberData, "membership_duration_days")
       IN  /\ FGt(SeriesMax(dur), F(0, 1)) =>
                \A l \in Range(member_arg.index) :
                    FMul(loyalty_score(MemberData)[l], SeriesMax(dur)) = dur[l]
           /\ SeriesMax(dur) = F(0, 1) =>
                \A p \in MemberPositions :
                    IsFinite(MemberOut(p)["engagement_score"])

---------------------------------------------------------------------------
(* Properties of the three scorers together *)

\* d is the whole number of days in a span of ticks
IsWholeDays(d, ticks) ==
    /\ d.d = 1
    /\ d.n * TicksPerDay <= ticks
    /\ ticks < (d.n + 1) * TicksPerDay

\* x is q rounded to 1 decimal: a whole number of tenths no further than
\* half a tenth from q, and q itself when q is not finite
IsRounded1(x, q) ==
    IF IsFinite(q)
    THEN /\ IsFinite(x)
         /\ 10 % x.d = 0
         /\ FLe(FAbs(FSub(x, q)), F(1, 20))
    ELSE x = q

\* the largest value of column c of the scored table
MemberMax(c) ==
    LET vs == {MemberOut(p)[c] : p \in MemberPositions}
    IN  CHOOSE x \in vs : \A y \in vs : FGe(x, y)

\* C27: days_since_interaction is the whole number of days between now and
\* last_interaction when that column is present and 30 on every row when it
\* is absent; engagement_score is 100 x (0.3 x attendance + 0.3 x
\* satisfaction/10 + 0.2 x recency + 0.2 x loyalty) rounded to one decimal,
\* recency being 1 - days/max(days) and loyalty duration/max(duration).
C27_DaysAndScore ==
    MemberScored =>
        /\ \A p \in MemberPositions :
            IF "last_interaction" \in member_arg.columns
            THEN /\ MemberOut(p)["days_since_interaction"].d = 1
                 /\ IsWholeDays(MemberOut(p)["days_since_interaction"],
                                now - member_arg.rows[p]["last_interaction"])
            ELSE MemberOut(p)["days_since_interaction"] = F(30, 1)
        /\ {"attendance_rate", "satisfaction_score"} \subseteq member_arg.columns =>
            \A p \in MemberPositions :
                LET attendance   == MemberOut(p)["attendance_rate"]
                    satisfaction == FDiv(MemberOut(p)["satisfaction_score"], F(10, 1))
                    recency      == FSub(F(1, 1),
                                        FDiv(MemberOut(p)["days_since_interaction"],
                                             MemberMax("days_since_interaction")))
                    loyalty      == FDiv(MemberOut(p)["membership_duration_days"],
                                         MemberMax("membership_duration_days"))
                    sum == FAdd(FAdd(FMul(F(3, 10), attendance),
                                     FMul(F(3, 10), satisfaction)),
                                FAdd(FMul(F(2, 10), recency),
                                     FMul(F(2, 10), loyalty)))
                IN  IsRounded1(MemberOut(p)["engagement_score"],
                               FMul(F(100, 1), sum))

\* one member with attendance 0.83, satisfaction 10, last seen a day ago
\* (recency 0) and the longest membership: 100 x (0.249 + 0.3 + 0 + 0.2)
C27_Witness ==
    /\ MemberScored
    /\ Len(member_arg.rows) = 1
    /\ member_arg.columns = MemberColumns
    /\ member_arg.rows[1]["attendance_rate"] = F(83, 100)
    /\ member_arg.rows[1]["satisfaction_score"] = F(10, 1)
    /\ member_arg.rows[1]["last_interaction"] = now - TicksPerDay
    /\ MemberOut(1)["days_since_interaction"] = F(1, 1)
    /\ MemberOut(1)["engagement_score"] = F(749, 10)

IsEmptyInput(t) == t.isNone \/ Len(t.rows) = 0

\* C4: on a non-empty table, whichever optional source columns are absent,
\* no scorer raises: each returns a table.
C4_ScorersNeverRaise ==
    /\ (member_ret.kind # "pending" /\ ~IsEmptyInput(member_arg)) =>
            member_ret.kind = "table"
    /\ (partner_ret.kind # "pending" /\ ~IsEmptyInput(partner_arg)) =>
            partner_ret.kind = "table"
    /\ (program_ret.kind # "pending" /\ ~IsEmptyInput(program_arg)) =>
            program_ret.kind = "table"

\* C5: on an absent (None) or zero-row table each scorer returns None and
\* does not raise.
C5_EmptyInputReturnsNone ==
    /\ (member_ret.kind # "pending" /\ IsEmptyInput(member_arg)) =>
            member_ret = ReturnNone
    /\ (partner_ret.kind # "pending" /\ IsEmptyInput(partner_arg)) =>
            partner_ret = ReturnNone
    /\ (program_ret.kind # "pending" /\ IsEmptyInput(program_arg)) =>
            program_ret = ReturnNone

\* all three scorers have been called, one of them on a table that is not
\* None but has zero rows, the others on None
C5_Witness ==
    /\ member_ret.kind = "none"
    /\ partner_ret.kind = "none"
    /\ program_ret.kind = "none"
    /\ \E t \in {member_arg, partner_arg, program_arg} :
        ~t.isNone /\ Len(t.rows) = 0 /\ t.columns # {}

---------------------------------------------------------------------------
(* Properties of calculate_partnership_effectiveness *)

PartnerScored == partner_ret.kind = "table"

PartnerIn(p) == partner_arg.rows[p]

PartnerOut(p) == partner_ret.table.rows[p]

PartnerPositions == 1..Len(partner_ret.table.rows)

InRating(x) == FGe(x, F(1, 1)) /\ FLe(x, F(10, 1))

\* C8: effectiveness_score is the mean of performance_rating and
\* alignment_score when both columns are present (and then lies in [1,10]
\* when both ratings do), the one rating present when only one is, and 5 when
\* neither is.
C8_EffectivenessScore ==
    PartnerScored =>
        \A p \in PartnerPositions :
            LET score == PartnerOut(p)["effectiveness_score"]
                hasP  == "performance_rating" \in partner_arg.columns
                hasA  == "alignment_score" \in partner_arg.columns
            IN  /\ (hasP /\ hasA) =>
                    /\ FMul(score, F(2, 1)) =
                        FAdd(PartnerIn(p)["performance_rating"],
                             PartnerIn(p)["alignment_score"])
                    /\ (/\ InRating(PartnerIn(p)["performance_rating"])
                        /\ InRating(PartnerIn(p)["alignment_score"]))
                        => InRating(score)
                /\ (hasP /\ ~hasA) => score = PartnerIn(p)["performance_rating"]
                /\ (~hasP /\ hasA) => score = PartnerIn(p)["alignment_score"]
                /\ (~hasP /\ ~hasA) => score = F(5, 1)

\* a partnership rated 7 and 8 has been scored 7.5
C8_Witness ==
    /\ PartnerScored
    /\ {"performance_rating", "alignment_score"} \subseteq partner_arg.columns
    /\ \E p \in PartnerPositions :
        /\ PartnerIn(p)["performance_rating"] = F(7, 1)
        /\ PartnerIn(p)["alignment_score"] = F(8, 1)
        /\ PartnerOut(p)["effectiveness_score"] = F(15, 2)

\* C9: effectiveness_category follows effectiveness_score by the cutoffs 8,
\* 6, 4, a score on a cutoff falling in the higher bucket; the default score
\* 5 is Low.
C9_CategoryMatchesCutoffs ==
    PartnerScored =>
        \A p \in PartnerPositions :
            LET score == PartnerOut(p)["effectiveness_score"]
                cat   == PartnerOut(p)["effectiveness_category"]
            IN  /\ FGe(score, F(8, 1)) => cat = "High"
                /\ (FGe(score, F(6, 1)) /\ FLt(score, F(8, 1))) => cat = "Medium"
                /\ (FGe(score, F(4, 1)) /\ FLt(score, F(6, 1))) => cat = "Low"
                /\ FLt(score, F(4, 1)) => cat = "Very Low"
                /\ ({"performance_rating", "alignment_score"}
                        \cap partner_arg.columns = {}) => cat = "Low"

\* a partnership scored exactly 8 (ratings 6 and 10) is High
C9_Witness ==
    /\ PartnerScored
    /\ \E p \in PartnerPositions :
        /\ PartnerOut(p)["effectiveness_score"] = F(8, 1)
        /\ PartnerOut(p)["effectiveness_category"] = "High"

\* C10: with start_date and end_date both present, partnership_duration is
\* (end_date - start_date) in days for rows whose end_date is not after now
\* and (now - start_date) in days for rows whose end_date is in the future;
\* with either column absent there is no partnership_duration column.
C10_PartnershipDuration ==
    PartnerScored =>
        IF {"start_date", "end_date"} \subseteq partner_arg.columns
        THEN \A p \in PartnerPositions :
                LET start == PartnerIn(p)["start_date"]
                    end   == PartnerIn(p)["end_date"]
                    dur   == PartnerOut(p)["partnership_duration"]
                IN  /\ end <= now => IsWholeDays(dur, end - start)
                    /\ end > now => IsWholeDays(dur, now - start)
        ELSE "partnership_duration" \notin partner_ret.table.columns

\* an ongoing partnership whose duration to date differs from its planned one
C10_Witness ==
    /\ PartnerScored
    /\ {"start_date", "end_date"} \subseteq partner_arg.columns
    /\ \E p \in PartnerPositions :
        /\ PartnerIn(p)["end_date"] > now
        /\ Days(now - PartnerIn(p)["start_date"])
            # Days(PartnerIn(p)["end_date"] - PartnerIn(p)["start_date"])
        /\ PartnerOut(p)["partnership_duration"]
            = F(Days(now - PartnerIn(p)["start_date"]), 1)

\* C11: roi is (value_contribution - cost) / cost when both columns are
\* present (a float division: by a zero cost it is inf or NaN), is
\* value_contribution / 5000 when only value_contribution is present, and
\* there is no roi column when value_contribution is absent, cost present or
\* not.
C11_Roi ==
    PartnerScored =>
        IF "value_contribution" \notin partner_arg.columns
        THEN "roi" \notin partner_ret.table.columns
        ELSE \A p \in PartnerPositions :
                LET value == PartnerIn(p)["value_contribution"]
                    roi   == PartnerOut(p)["roi"]
                IN  IF "cost" \in partner_arg.columns
                    THEN LET cost == PartnerIn(p)["cost"]
                         IN  IF cost = F(0, 1)
                             THEN ~IsFinite(roi)
                             ELSE FMul(roi, cost) = FSub(value, cost)
                    ELSE FMul(roi, F(5000, 1)) = value

\* a partnership contributing 10000 at a cost of 5000 has roi 1
C11_Witness ==
    /\ PartnerScored
    /\ {"value_contribution", "cost"} \subseteq partner_arg.columns
    /\ \E p \in PartnerPositions :
        /\ PartnerIn(p)["value_contribution"] = F(10000, 1)
        /\ PartnerIn(p)["cost"] = F(5000, 1)
        /\ PartnerOut(p)["roi"] = F(1, 1)

---------------------------------------------------------------------------
(* Properties of analyze_program_performance *)

ProgramScored == program_ret.kind = "table"

ProgramRescored == ProgramScored /\ rescore_ret.kind = "table"

ProgramIn(p) == program_arg.rows[p]

ProgramOut(p) == program_ret.table.rows[p]

ProgramPositions == 1..Len(program_ret.table.rows)

\* x is q rounded to 2 decimals: a whole number of hundredths no further than
\* half a hundredth from q, and q itself when q is not finite
IsRounded2(x, q) ==
    IF IsFinite(q)
    THEN /\ IsFinite(x)
         /\ 100 % x.d = 0
         /\ FLe(FAbs(FSub(x, q)), F(1, 200))
    ELSE x = q

\* C12: with capacity and current_enrollment both present, enrollment_rate
\* is current_enrollment / capacity rounded to 2 decimals, it does not exceed
\* 1 on a row whose capacity is at least its enrollment, and a second run of
\* the scorer over the same rows gives the same enrollment_rate.
C12_EnrollmentRate ==
    (ProgramScored /\ {"capacity", "current_enrollment"} \subseteq program_arg.columns)
    => \A p \in ProgramPositions :
        LET capacity   == ProgramIn(p)["capacity"]
            enrollment == ProgramIn(p)["current_enrollment"]
            rate       == ProgramOut(p)["enrollment_rate"]
        IN  /\ IsRounded2(rate, FDiv(enrollment, capacity))
            /\ FGe(capacity, enrollment) => ~FGt(rate, F(1, 1))
            /\ ProgramRescored =>
                    rescore_ret.table.rows[p]["enrollment_rate"] = rate

\* 2 enrolled of 3 places is 0.67, on the first run and on the second
C12_Witness ==
    /\ ProgramRescored
    /\ {"capacity", "current_enrollment"} \subseteq program_arg.columns
    /\ \E p \in ProgramPositions :
        /\ ProgramIn(p)["capacity"] = F(3, 1)
        /\ ProgramIn(p)["current_enrollment"] = F(2, 1)
        /\ ProgramOut(p)["enrollment_rate"] = F(67, 100)
        /\ rescore_ret.table.rows[p]["enrollment_rate"] = F(67, 100)

\* the sub-metrics of row p that are available, as <<weight, value, name>> triples
ProgramAvailable(p) ==
    LET cols == program_ret.table.columns
    IN  (IF "enrollment_rate" \in cols
            THEN {<<F(3, 10), ProgramOut(p)["enrollment_rate"], "enrollment">>}
            ELSE {})
        \cup
        (IF "satisfaction_score" \in cols
            THEN {<<F(4, 10), FDiv(ProgramOut(p)["satisfaction_score"], F(10, 1)),
                    "satisfaction">>}
            ELSE {})
        \cup
        (IF "success_metric" \in cols
            THEN {<<F(3, 10), ProgramOut(p)["success_metric"], "success">>}
            ELSE {})
        \cup
        (IF "budget_utilization" \in cols
            THEN {<<F(2, 10),
                    FSub(F(1, 1),
                         FAbs(FSub(ProgramOut(p)["budget_utilization"], F(1, 1)))),
                    "budget">>}
            ELSE {})

RECURSIVE WeightTotal(_)
WeightTotal(S) ==
    IF S = {} THEN F(0, 1)
    ELSE LET e == CHOOSE x \in S : TRUE
         IN  FAdd(e[1], WeightTotal(S \ {e}))

RECURSIVE WeightedTotal(_)
WeightedTotal(S) ==
    IF S = {} THEN F(0, 1)
    ELSE LET e == CHOOSE x \in S : TRUE
         IN  FAdd(FMul(e[1], e[2]), WeightedTotal(S \ {e}))

\* C13: performance_score is 100 times the weighted average of the
\* available sub-metrics (enrollment_rate 0.3, satisfaction_score/10 0.4,
\* success_metric 0.3, budget closeness 0.2), the weights divided by their
\* total; with no sub-metric available it is 50 on every row.
C13_WeightedAverage ==
    ProgramScored =>
        \A p \in ProgramPositions :
            LET A     == ProgramAvailable(p)
                score == ProgramOut(p)["performance_score"]
            IN  IF A = {}
                THEN score = F(50, 1)
                ELSE score = FMul(FDiv(WeightedTotal(A), WeightTotal(A)),
                                  F(100, 1))

\* satisfaction 10 and success 0.5 alone: (0.4 * 1 + 0.3 * 0.5) / 0.7
C13_Witness ==
    /\ ProgramScored
    /\ program_arg.columns = {"satisfaction_score", "success_metric"}
    /\ \E p \in ProgramPositions :
        /\ ProgramIn(p)["satisfaction_score"] = F(10, 1)
        /\ ProgramIn(p)["success_metric"] = F(1, 2)
        /\ ProgramOut(p)["performance_score"] = F(550, 7)

\* C14: every row's performance_score lies in [0,100], the rows whose
\* expenses exceed twice their budget included (inputs non-negative,
\* satisfaction within 0-10).
C14_PerformanceScoreInRange ==
    ProgramScored =>
        \A p \in ProgramPositions :
            /\ FGe(ProgramOut(p)["performance_score"], F(0, 1))
            /\ FLe(ProgramOut(p)["performance_score"], F(100, 1))

\* C15: performance_category follows performance_score by the cutoffs 80,
\* 60, 40, a score on a cutoff falling in the higher bucket; the default
\* score 50 is Low.
C15_CategoryMatchesCutoffs ==
    ProgramScored =>
        \A p \in ProgramPositions :
            LET score    == ProgramOut(p)["performance_score"]
                category == ProgramOut(p)["performance_category"]
            IN  /\ FGe(score, F(80, 1)) => category = "High"
                /\ (FGe(score, F(60, 1)) /\ FLt(score, F(80, 1)))
                        => category = "Medium"
                /\ (FGe(score, F(40, 1)) /\ FLt(score, F(60, 1)))
                        => category = "Low"
                /\ ~FGe(score, F(40, 1)) => category = "Very Low"
                /\ ProgramAvailable(p) = {} => category = "Low"

\* a score of exactly 80 is High
C15_Witness ==
    /\ ProgramScored
    /\ \E p \in ProgramPositions :
        /\ ProgramOut(p)["performance_score"] = F(80, 1)
        /\ ProgramOut(p)["performance_category"] = "High"

---------------------------------------------------------------------------
(* Properties of find_similar_members *)

\* the call is over, by a return or by an exception
SimilarDone == similar_ret.kind # "pending"

SimilarReturned == similar_ret.kind = "table"

SimilarPositions ==
    IF similar_arg.isNone THEN {} ELSE 1..Len(similar_arg.rows)

\* the rows of the table passed that carry another member_id
SimilarOthers ==
    {p \in SimilarPositions : similar_arg.rows[p]["member_id"] # similar_id}

\* the target is in the table and some allow-listed feature column is too
SimilarRanked ==
    /\ SimilarOthers # SimilarPositions
    /\ similar_arg.columns \cap (numeric_features \cup categorical_features) # {}

\* the position in the table passed of the row returned under label l
SimilarPosition(l) ==
    CHOOSE p \in SimilarPositions : similar_arg.index[p] = l

\* the rows returned, as positions of the table passed, in the order listed
SimilarPicked ==
    [i \in 1..Len(similar_ret.table.rows) |->
        SimilarPosition(similar_ret.table.index[i])]

\* C16: the result does not contain the target row and has at most k rows;
\* when the table has n <= k rows other than the target, exactly those n
\* rows are returned.
C16_ExcludesTargetAtMostK ==
    SimilarDone =>
        /\ SimilarReturned
        /\ \A i \in 1..Len(similar_ret.table.rows) :
                similar_ret.table.rows[i]["member_id"] # similar_id
        /\ Len(similar_ret.table.rows) <= similar_k
        /\ (SimilarRanked /\ Cardinality(SimilarOthers) <= similar_k) =>
                /\ Len(similar_ret.table.rows) = Cardinality(SimilarOthers)
                /\ Range(SimilarPicked) = SimilarOthers

\* the similarity of the row at position p to the first row carrying the
\* identifier asked for
SimilarityToTarget(p) ==
    LET t == CHOOSE q \in SimilarPositions :
                /\ similar_arg.rows[q]["member_id"] = similar_id
                /\ \A r \in 1..(q - 1) :
                        similar_arg.rows[r]["member_id"] # similar_id
    IN  cosine_similarity(X_scaled(similar_arg), t, p)

\* C17: the rows returned are the k rows most similar to the target among
\* the non-target rows, listed in non-increasing order of similarity_score:
\* no omitted non-target row is strictly more similar than a returned one.
C17_TopKBySimilarity ==
    (SimilarReturned /\ SimilarRanked) =>
        LET rows == similar_ret.table.rows
            m    == Len(rows)
        IN  /\ m = Min(similar_k, Cardinality(SimilarOthers))
            /\ \A i, j \in 1..m : i < j =>
                    FGe(rows[i]["similarity_score"], rows[j]["similarity_score"])
            /\ \A q \in SimilarOthers \ Range(SimilarPicked) :
                    \A i \in 1..m :
                        FGe(SimilarityToTarget(SimilarPicked[i]),
                            SimilarityToTarget(q))

\* C29: the similarity_score of each returned row is the cosine similarity
\* of that row's standardized features and those of the row carrying the
\* target identifier, whatever the table's row labels are and whether or
\* not member_id values repeat.
C29_ScoreIsSimilarityToTarget ==
    (SimilarReturned /\ SimilarRanked) =>
        \A i \in 1..Len(similar_ret.table.rows) :
            similar_ret.table.rows[i]["similarity_score"]
                = SimilarityToTarget(SimilarPicked[i])

\* the result is a frame of no rows
SimilarEmptyResult ==
    /\ similar_ret.kind = "table"
    /\ ~similar_ret.table.isNone
    /\ Len(similar_ret.table.rows) = 0

\* C18: the result is empty, and nothing is raised, when the table is None
\* or has zero rows, when the identifier does not occur in the member_id
\* column, and when no allow-listed numeric or categorical feature column
\* is present.
C18_EmptyResult ==
    SimilarDone =>
        /\ (similar_arg.isNone \/ SimilarPositions = {}) => SimilarEmptyResult
        /\ SimilarOthers = SimilarPositions => SimilarEmptyResult
        /\ (~similar_arg.isNone /\
            similar_arg.columns \cap (numeric_features \cup categorical_features) = {})
                => SimilarEmptyResult

\* a table of rows with features, none of them carrying the identifier
C18_Witness ==
    /\ SimilarDone
    /\ SimilarPositions # {}
    /\ SimilarOthers = SimilarPositions
    /\ "satisfaction_score" \in similar_arg.columns
    /\ SimilarEmptyResult

---------------------------------------------------------------------------
(* Properties of the four functions together *)

\* C19: no scorer and no call of find_similar_members modifies the table
\* object it is passed: over every call the caller's table keeps its columns
\* and its cells, the first run's result included when it is the table
\* passed to a second run.
C19_CallersTableUntouched ==
    [][/\ member_arg' = member_arg
       /\ partner_arg' = partner_arg
       /\ program_arg' = program_arg
       /\ similar_arg' = similar_arg
       /\ member_ret.kind = "table" => member_ret'.table = member_ret.table
       /\ partner_ret.kind = "table" => partner_ret'.table = partner_ret.table
       /\ program_ret.kind = "table" => program_ret'.table = program_ret.table]_vars

\* a scored member table beside the caller's table, which has gained none of
\* the derived columns
C19_Witness ==
    /\ member_ret.kind = "table"
    /\ Len(member_arg.rows) > 0
    /\ {"days_since_interaction", "engagement_score", "engagement_level"}
            \subseteq member_ret.table.columns
    /\ {"days_since_interaction", "engagement_score", "engagement_level"}
            \cap member_arg.columns = {}

\* the result of the first run and the table it was run on, for the scorer
\* that ran
FirstRun ==
    IF member_ret.kind = "table" THEN [arg |-> member_arg, ret |-> member_ret]
    ELSE IF partner_ret.kind = "table" THEN [arg |-> partner_arg, ret |-> partner_ret]
    ELSE [arg |-> program_arg, ret |-> program_ret]

\* C20: for each scorer S, any table T and a fixed now, S(S(T)) has the
\* derived column values of S(T).
C20_RescoreKeepsDerived ==
    rescore_ret.kind # "pending" =>
        /\ rescore_ret.kind = "table"
        /\ rescore_ret.table.columns = FirstRun.ret.table.columns
        /\ rescore_ret.table.index = FirstRun.ret.table.index
        /\ \A p \in 1..Len(FirstRun.ret.table.rows) :
            \A c \in FirstRun.ret.table.columns \ FirstRun.arg.columns :
                rescore_ret.table.rows[p][c] = FirstRun.ret.table.rows[p][c]

\* a program with expenses equal to its budget scored twice: utilization 1
\* both times
C20_Witness ==
    /\ rescore_ret.kind = "table"
    /\ program_ret.kind = "table"
    /\ \E p \in 1..Len(program_arg.rows) :
        /\ {"budget", "expenses"} \subseteq program_arg.columns
        /\ program_arg.rows[p]["budget"] = F(1000, 1)
        /\ program_arg.rows[p]["expenses"] = F(1000, 1)
        /\ program_ret.table.rows[p]["budget_utilization"] = F(1, 1)
        /\ rescore_ret.table.rows[p]["budget_utilization"] = F(1, 1)

---------------------------------------------------------------------------
(* Worked examples *)

\* the budget closeness at the utilization mirrored about 1
MirroredCloseness(p) ==
    LET t == program_ret.table
        mirrored == SetColumn(t, "budget_utilization",
                        [l \in Range(t.index) |->
                            FSub(F(2, 1), Column(t, "budget_utilization")[l])])
    IN  budget_score(mirrored)[t.index[p]]

\* C25: the budget closeness sub-score is 1 - |budget_utilization - 1| with
\* no clamping: 1 when expenses equal budget, 0 at utilization 2, below 0
\* past 2, and the same for under- and over-spend by the same amount.  With
\* budget and expenses the only source columns performance_score is 100
\* times the sub-score.
C25_BudgetCloseness ==
    (ProgramScored /\ program_arg.columns = {"budget", "expenses"}) =>
        \A p \in ProgramPositions :
            LET utilization == ProgramOut(p)["budget_utilization"]
                closeness   == FDiv(ProgramOut(p)["performance_score"], F(100, 1))
            IN  /\ closeness = budget_score(program_ret.table)[program_ret.table.index[p]]
                /\ utilization = F(1, 1) => closeness = F(1, 1)
                /\ utilization = F(2, 1) => closeness = F(0, 1)
                /\ FGt(utilization, F(2, 1)) => FLt(closeness, F(0, 1))
                /\ closeness = MirroredCloseness(p)

\* budget 1000 and expenses 1000: closeness 1, score 100
C25_Witness ==
    /\ ProgramScored
    /\ program_arg.columns = {"budget", "expenses"}
    /\ \E p \in ProgramPositions :
        /\ ProgramIn(p)["budget"] = F(1000, 1)
        /\ ProgramIn(p)["expenses"] = F(1000, 1)
        /\ ProgramOut(p)["performance_score"] = F(100, 1)

\* the sub-score of the row labelled l, NaN where the Series has no such label
SubScore(s, l) == IF l \in DOMAIN s THEN s[l] ELSE NaN

\* row p is at least row q on each of the four sub-scores
Dominates(p, q) ==
    LET lp == member_ret.table.index[p]
        lq == member_ret.table.index[q]
    IN  /\ FGe(SubScore(attendance_score(MemberData), lp),
               SubScore(attendance_score(MemberData), lq))
        /\ FGe(SubScore(satisfaction_score(MemberData), lp),
               SubScore(satisfaction_score(MemberData), lq))
        /\ FGe(SubScore(recency_score(MemberData), lp),
               SubScore(recency_score(MemberData), lq))
        /\ FGe(SubScore(loyalty_score(MemberData), lp),
               SubScore(loyalty_score(MemberData), lq))

\* the two members of the example: attendance 1.0 and 0.0, satisfaction 10
\* and 0, last interaction today and 30 days ago, duration 100 and 0 days
IsExampleTable(t) ==
    /\ ~t.isNone
    /\ t.columns = MemberColumns
    /\ Len(t.rows) = 2
    /\ t.rows[1] = [attendance_rate |-> F(1, 1), satisfaction_score |-> F(10, 1),
                    last_interaction |-> now,
                    membership_duration_days |-> F(100, 1)]
    /\ t.rows[2] = [attendance_rate |-> F(0, 1), satisfaction_score |-> F(0, 1),
                    last_interaction |-> now - 30 * TicksPerDay,
                    membership_duration_days |-> F(0, 1)]

\* C26: on the two-row example row 1 gets engagement_score 100 and level
\* High and scores strictly above row 2; in any scored table a row that is
\* at least another on all four sub-scores never gets the lower score.
C26_DominantRowScoresHigher ==
    MemberScored =>
        /\ IsExampleTable(member_arg) =>
            /\ MemberOut(1)["engagement_score"] = F(100, 1)
            /\ MemberOut(1)["engagement_level"] = "High"
            /\ FGt(MemberOut(1)["engagement_score"], MemberOut(2)["engagement_score"])
        /\ \A p, q \in MemberPositions :
            Dominates(p, q) =>
                FGe(MemberOut(p)["engagement_score"], MemberOut(q)["engagement_score"])

C26_Witness ==
    /\ MemberScored
    /\ IsExampleTable(member_arg)
    /\ MemberOut(1)["engagement_score"] = F(100, 1)
    /\ MemberOut(2)["engagement_score"] = F(0, 1)


---------------------------------------------------------------------------
(* Properties of the imports and of the session *)

\* every cell of the columns of input is found again in output
KeepsInputColumns(input, output) ==
    /\ input.columns \subseteq output.columns
    /\ Len(output.rows) = Len(input.rows)
    /\ \A p \in 1..Len(input.rows) :
        \A c \in input.columns : output.rows[p][c] = input.rows[p][c]

\* C21: the table each scorer returns is a column-superset of its input:
\* every column of the input is in the output with the same value in every
\* row, also when the input already has a column named like a derived one
\* (the engagement_level column of the sample membership data).
C21_OutputKeepsInputColumns ==
    /\ member_ret.kind = "table" => KeepsInputColumns(member_arg, member_ret.table)
    /\ partner_ret.kind = "table" => KeepsInputColumns(partner_arg, partner_ret.table)
    /\ program_ret.kind = "table" => KeepsInputColumns(program_arg, program_ret.table)

\* C22: after any sequence of imports every partnership record of the
\* session with an end date earlier than now has status Completed, and every
\* one with a start date later than now has status Pending unless its status
\* is Negotiation.
C22_PartnershipStatusFollowsDates ==
    \A p \in 1..Len(partner_arg.rows) :
        LET row == partner_arg.rows[p]
            status == IF "status" \in partner_arg.columns
                      THEN row["status"] ELSE ""
        IN  /\ ("end_date" \in partner_arg.columns /\ row["end_date"] < now)
                    => status = "Completed"
            /\ ("start_date" \in partner_arg.columns /\ row["start_date"] > now)
                    => status \in {"Pending", "Negotiation"}

\* C23: after any sequence of imports every program record of the session
\* has current_enrollment <= capacity, a larger imported enrollment having
\* been clamped to the capacity.
C23_EnrollmentWithinCapacity ==
    \A p \in 1..Len(program_arg.rows) :
        {"current_enrollment", "capacity"} \subseteq program_arg.columns
            => FLe(program_arg.rows[p]["current_enrollment"],
                   program_arg.rows[p]["capacity"])

\* C24: every imported member record has membership_duration_days equal to
\* the whole days of now - join_date, whatever value the input supplied, and
\* that number is not negative.
C24_DurationRecomputedNonNegative ==
    \A p \in 1..Len(member_arg.rows) :
        LET row == member_arg.rows[p]
        IN  /\ "membership_duration_days" \in member_arg.columns
            /\ IsWholeDays(row["membership_duration_days"], now - row["join_date"])
            /\ row["membership_duration_days"].n >= 0

\* the session table that holds the uploads of a data type
SessionTable(data_type) ==
    CASE data_type = "membership" -> member_arg
      [] data_type = "partnership" -> partner_arg
      [] data_type = "program" -> program_arg
      [] data_type = "content" -> content_calendar

\* C28: an upload whose file lacks a required column of the selected data
\* type is rejected with an error; a rejected upload leaves all four session
\* tables as they were; a successful upload replaces the session table of
\* its data type, and only that one.
C28_UploadRejectedOrStored ==
    [][upload_type' # "" =>
        /\ ~(required_columns(upload_type') \subseteq uploaded_file'.columns)
                => upload_ret'.kind = "raise"
        /\ upload_ret'.kind \in {"raise", "table"}
        /\ upload_ret'.kind = "raise" =>
                \A t \in DataTypes : SessionTable(t)' = SessionTable(t)
        /\ upload_ret'.kind = "table" =>
                \A t \in DataTypes :
                    SessionTable(t)' = IF t = upload_type' THEN upload_ret'.table
                                       ELSE SessionTable(t)]_vars

\* a membership file without join_date was rejected while the session held
\* a membership table and a partnership table, which are still there
C28_Witness ==
    /\ upload_type = "membership"
    /\ "join_date" \notin uploaded_file.columns
    /\ upload_ret.kind = "raise"
    /\ ~member_arg.isNone
    /\ "membership_duration_days" \in member_arg.columns
    /\ ~partner_arg.isNone

\* a scorer has run in this step: a page was viewed
PageViewed ==
    \/ member_ret'.kind # "pending"
    \/ partner_ret'.kind # "pending"
    \/ program_ret'.kind # "pending"

\* C30: viewing the membership, partnership, program or insights page, any
\* number of times in any order, never changes a table of the session: the
\* derived columns go to the page's copy, and a step in which a session table
\* changes is an upload or Load Sample Data, never a page view.
C30_OnlyImportsChangeSession ==
    [][PageViewed => \A t \in DataTypes : SessionTable(t)' = SessionTable(t)]_vars

\* the insights page has scored the partnership and program tables of the
\* session, which have none of the derived columns
C30_Witness ==
    /\ partner_ret.kind = "table"
    /\ program_ret.kind = "table"
    /\ "effectiveness_score" \in partner_ret.table.columns
    /\ "performance_score" \in program_ret.table.columns
    /\ "effectiveness_score" \notin partner_arg.columns
    /\ "performance_score" \notin program_arg.columns
=============================================================================
